---- MODULE Spec2Model ----
(***************************************************************************)
(* NormalizeKernelUnitVariance<InputType>::train of Shark                  *)
(* (include/shark/Algorithms/Trainers/NormalizeKernelUnitVariance.h).      *)
(*                                                                         *)
(* The trainer walks one triangle of the kernel matrix of a dataset in a   *)
(* blockwise order, accumulates `mean' and `trace', stores both in the     *)
(* members m_mean / m_trace and sets the factor of the ScaledKernel to     *)
(* 1 / (trace/N - mean/N/N).                                               *)
(*                                                                         *)
(* Numbers: every C++ double is an IEEE-754 binary64 value, written        *)
(* <<s, hi, lo, e>> with sign s and the 53-bit significand hi*2^27 + lo;   *)
(* its value is s * (hi*2^27 + lo) * 2^e.  DAdd, DSub and DDiv round to    *)
(* nearest, ties to even, as the hardware does, so that trace/N - mean/N/N *)
(* and 1.0/tm have the bits the program computes.  The evaluator returns   *)
(* small integers or, for one constant evaluator, the double 0.1, whose    *)
(* sums are not exact.  The members m_mean and m_trace are not set by the  *)
(* constructor: before the first completed train they hold any double,     *)
(* NaN included.                                                           *)
(*                                                                         *)
(* Block size: the source hard-codes 64.  The model carries it as the      *)
(* variable blockSize, fixed at Init, so that the same loops can be run    *)
(* with small blocks (several full blocks plus a remainder for N <= MaxN)  *)
(* as well as with the source's 64.                                        *)
(***************************************************************************)
EXTENDS Integers, Sequences, FiniteSets

\* ---------------------------------------------------------------- bounds
MaxN == 5
MaxBlock == 2
SourceBlockSize == 64

\* ------------------------------------------------------- IEEE doubles
\* A finite nonzero double is <<s, hi, lo, e>>: sign s in {-1, 1}, significand
\* hi * 2^27 + lo (0 <= lo < 2^27) and exponent -1074 <= e <= 971, with value
\* s * (hi * 2^27 + lo) * 2^e.  A normal double has 2^25 <= hi < 2^26 (53
\* bits); a subnormal one has e = -1074 and fewer bits.  +0.0 is
\* <<0, 0, 0, 0>>, -0.0 is <<0, 0, 0, -1>>, NaN is <<0, 0, 0, 1024>> and
\* +-infinity is <<s, 0, 0, 972>>.
RECURSIVE TwoTo(_)
TwoTo(k) == IF k = 0 THEN 1 ELSE 2 * TwoTo(k - 1)
Pow2 == [k \in 0 .. 30 |-> TwoTo(k)]
Limb == Pow2[27]
Zero == <<0, 0, 0, 0>>
NegZero == <<0, 0, 0, -1>>
Infinity(s) == <<s, 0, 0, 972>>
NaN == <<0, 0, 0, 1024>>
IsNaN(x) == x[1] = 0 /\ x[4] = 1024
IsZero(x) == x[1] = 0 /\ x[4] # 1024
IsInfinite(x) == x[1] # 0 /\ x[4] = 972
IsFinite(x) == ~IsNaN(x) /\ ~IsInfinite(x)
\* the sign bit as -1 or 1, of zeros too
Sign(x) == IF x[1] # 0 THEN x[1] ELSE IF x[4] = -1 THEN -1 ELSE 1
ZeroOf(s) == IF s < 0 THEN NegZero ELSE Zero

NibbleLen == [n \in 0 .. 15 |->
    IF n = 0 THEN 0 ELSE IF n < 2 THEN 1 ELSE IF n < 4 THEN 2
    ELSE IF n < 8 THEN 3 ELSE 4]
RECURSIVE BitLen(_)
BitLen(n) == IF n >= 16 THEN 4 + BitLen(n \div 16) ELSE NibbleLen[n]
\* number of bits of the magnitude hi * 2^27 + lo
MagLen(hi, lo) == IF hi > 0 THEN 27 + BitLen(hi) ELSE BitLen(lo)

MagGeq(a, b) == a[1] > b[1] \/ (a[1] = b[1] /\ a[2] >= b[2])
MagAdd(a, b) == <<a[1] + b[1] + (a[2] + b[2]) \div Limb, (a[2] + b[2]) % Limb>>
MagSub(a, b) ==
    IF a[2] >= b[2] THEN <<a[1] - b[1], a[2] - b[2]>>
    ELSE <<a[1] - b[1] - 1, a[2] + Limb - b[2]>>
\* the sticky bit: the lowest bit is set when lower bits were dropped
Jam(m, dropped) ==
    IF dropped /\ m[2] % 2 = 0 THEN <<m[1], m[2] + 1>> ELSE m
RECURSIVE ShiftRightJam(_, _, _)
ShiftRightJam(hi, lo, d) ==
    IF d >= 27
    THEN Jam(ShiftRightJam(hi \div Limb, hi % Limb, d - 27), lo # 0)
    ELSE IF d = 0 THEN <<hi, lo>>
    ELSE Jam(<<hi \div Pow2[d], (lo \div Pow2[d]) + (hi % Pow2[d]) * Pow2[27 - d]>>,
             lo % Pow2[d] # 0)
RECURSIVE ShiftLeft(_, _, _)
ShiftLeft(hi, lo, d) ==
    IF d >= 27 THEN ShiftLeft(lo, 0, d - 27)
    ELSE IF d = 0 THEN <<hi, lo>>
    ELSE <<hi * Pow2[d] + lo \div Pow2[27 - d], (lo % Pow2[27 - d]) * Pow2[d]>>

\* round to nearest, ties to even: q is the magnitude without its k lowest
\* bits, rem those bits
RoundUp(q, rem, k) ==
    rem > Pow2[k - 1] \/ (rem = Pow2[k - 1] /\ q[2] % 2 = 1)
Increment(s, q, e) ==
    IF q[2] + 1 < Limb THEN <<s, q[1], q[2] + 1, e>>
    ELSE IF q[1] + 1 < Pow2[26] THEN <<s, q[1] + 1, 0, e>>
    ELSE <<s, Pow2[25], 0, e + 1>>
Rounded(s, q, rem, k, e) ==
    IF RoundUp(q, rem, k) THEN Increment(s, q, e) ELSE <<s, q[1], q[2], e>>
Shifted(s, m, e) == <<s, m[1], m[2], e>>
\* the magnitude without its k lowest bits, 1 <= k <= 27
DropBits(hi, lo, k) ==
    <<hi \div Pow2[k], (lo \div Pow2[k]) + (hi % Pow2[k]) * Pow2[27 - k]>>
\* overflow: a result beyond the largest double is infinite
Ranged(x) == IF x[4] > 971 THEN Infinity(x[1]) ELSE x
\* underflow: a result that rounds to nothing is a signed zero
Finished(x) == IF x[2] = 0 /\ x[3] = 0 THEN ZeroOf(x[1]) ELSE x
RoundedLow2(s, m) == Finished(Rounded(s, DropBits(m[1], m[2], 2), m[2] % 4, 2, -1074))
\* a result below the normal range: the k lowest bits of the magnitude lie
\* below 2^-1074 and are rounded away in one step
Subnormal(s, hi, lo, k) ==
    IF k <= 0 THEN Shifted(s, ShiftLeft(hi, lo, -k), -1074)
    ELSE IF k = 1 THEN Finished(Rounded(s, DropBits(hi, lo, 1), lo % 2, 1, -1074))
    ELSE RoundedLow2(s, ShiftRightJam(hi, lo, k - 2))
\* the double nearest to s * (hi * 2^27 + lo) * 2^e, len the bits of the magnitude
PackLen(s, hi, lo, e, len) ==
    IF len = 0 THEN Zero
    ELSE IF e + len - 53 < -1074 THEN Subnormal(s, hi, lo, (-1074) - e)
    ELSE IF len <= 53
    THEN Ranged(Shifted(s, ShiftLeft(hi, lo, 53 - len), e - (53 - len)))
    ELSE Ranged(Rounded(s, DropBits(hi, lo, len - 53), lo % Pow2[len - 53],
                        len - 53, e + (len - 53)))
Pack(s, m, e) == PackLen(s, m[1], m[2], e, MagLen(m[1], m[2]))

\* int (or std::size_t) to double
D(n) == IF n = 0 THEN Zero ELSE Pack(IF n < 0 THEN -1 ELSE 1, <<0, IF n < 0 THEN -n ELSE n>>, 0)

\* x * 2^k: exact unless the result leaves the range of the normal doubles
Scale(x, k) ==
    IF x[1] = 0 \/ IsInfinite(x) THEN x
    ELSE Pack(x[1], <<x[2], x[3]>>, x[4] + k)
\* -x
DNeg(x) ==
    IF x[1] # 0 THEN <<-x[1], x[2], x[3], x[4]>>
    ELSE IF x = Zero THEN NegZero
    ELSE IF x = NegZero THEN Zero
    ELSE x

Times8(hi, lo) == <<hi * 8 + (lo * 8) \div Limb, (lo * 8) % Limb>>
AddMags(sa, sb, a, b, e) ==
    IF sa = sb THEN Pack(sa, MagAdd(a, b), e)
    ELSE IF MagGeq(a, b) THEN Pack(sa, MagSub(a, b), e)
    ELSE Pack(sb, MagSub(b, a), e)
\* a + b for finite nonzero a, b with the exponent of a at least that of b
AddOrdered(a, b) ==
    IF a[4] - b[4] > 60 THEN a
    ELSE AddMags(a[1], b[1], Times8(a[2], a[3]),
                 ShiftRightJam(b[2] * 8 + (b[3] * 8) \div Limb, (b[3] * 8) % Limb,
                               a[4] - b[4]),
                 a[4] - 3)
\* double operator+
DAdd(x, y) ==
    IF x[1] = 0
    THEN (IF IsNaN(x) THEN NaN
          ELSE IF IsZero(y) THEN (IF x = NegZero /\ y = NegZero THEN NegZero ELSE Zero)
          ELSE y)
    ELSE IF y[1] = 0 THEN (IF IsNaN(y) THEN NaN ELSE x)
    ELSE IF IsInfinite(x) THEN (IF IsInfinite(y) /\ y[1] # x[1] THEN NaN ELSE x)
    ELSE IF IsInfinite(y) THEN y
    ELSE IF x[4] >= y[4] THEN AddOrdered(x, y) ELSE AddOrdered(y, x)
\* double operator-
DSub(x, y) == DAdd(x, DNeg(y))

\* Division of significands: the quotient floor(a * 2^56 / b) is produced in
\* four digits of 14 bits by long division on limbs of 14 bits (lowest
\* first); the remainder only tells whether the quotient is exact.
Digit == Pow2[14]
Limbs14(m) ==
    <<m[2] % Digit, (m[2] \div Digit) + (m[1] % 2) * Pow2[13],
      (m[1] \div 2) % Digit, m[1] \div Pow2[15]>>
Geq14(a, b) ==
    IF a[4] # b[4] THEN a[4] > b[4]
    ELSE IF a[3] # b[3] THEN a[3] > b[3]
    ELSE IF a[2] # b[2] THEN a[2] > b[2]
    ELSE a[1] >= b[1]
Sub14(a, b) ==
    LET t1 == a[1] - b[1]
        t2 == a[2] - b[2] + (t1 \div Digit)
        t3 == a[3] - b[3] + (t2 \div Digit)
        t4 == a[4] - b[4] + (t3 \div Digit)
    IN  <<t1 % Digit, t2 % Digit, t3 % Digit, t4>>
\* r * 2^14 - d * b, limb by limb with a signed carry
MulSub4(l1, l2, l3, t4) == <<l1, l2, l3, t4 % Digit>>
MulSub3(r, b, d, l1, l2, t3) ==
    MulSub4(l1, l2, t3 % Digit, r[3] - d * b[4] + (t3 \div Digit))
MulSub2(r, b, d, l1, t2) ==
    MulSub3(r, b, d, l1, t2 % Digit, r[2] - d * b[3] + (t2 \div Digit))
MulSub1(r, b, d, t1) ==
    MulSub2(r, b, d, t1 % Digit, r[1] - d * b[2] + (t1 \div Digit))
MulSub(r, b, d) == MulSub1(r, b, d, -(d * b[1]))
\* a digit that is the true one or one less: the leading 31 bits of r * 2^14
\* over the leading 17 bits of b, plus one
Estimate(r, bt1) == (r[4] * Pow2[20] + r[3] * Pow2[6] + r[2] \div Pow2[8]) \div bt1
Quotient(q0, ds, r) ==
    Jam(<<q0 * Pow2[29] + ds[1] * Pow2[15] + ds[2] * 2 + ds[3] \div Pow2[13],
          (ds[3] % Pow2[13]) * Digit + ds[4]>>,
        r # <<0, 0, 0, 0>>)
RECURSIVE DivideDigits(_, _, _, _, _)
RECURSIVE Correct(_, _, _, _, _, _)
Correct(r, b, bt1, q0, ds, d) ==
    IF Geq14(r, b) THEN Correct(Sub14(r, b), b, bt1, q0, ds, d + 1)
    ELSE DivideDigits(r, b, bt1, q0, Append(ds, d))
Reduce(r, b, bt1, q0, ds, d) == Correct(MulSub(r, b, d), b, bt1, q0, ds, d)
DivideDigits(r, b, bt1, q0, ds) ==
    IF Len(ds) = 4 THEN Quotient(q0, ds, r)
    ELSE Reduce(r, b, bt1, q0, ds, Estimate(r, bt1))
DivideMags(s, a, b, e) ==
    IF MagGeq(a, b)
    THEN Pack(s, DivideDigits(Limbs14(MagSub(a, b)), Limbs14(b), (b[1] \div Pow2[9]) + 1, 1, <<>>), e - 56)
    ELSE Pack(s, DivideDigits(Limbs14(a), Limbs14(b), (b[1] \div Pow2[9]) + 1, 0, <<>>), e - 56)
\* a subnormal operand with its significand shifted up to 53 bits
Normal(x) ==
    IF x[2] >= Pow2[25] THEN x
    ELSE Shifted(x[1], ShiftLeft(x[2], x[3], 53 - MagLen(x[2], x[3])),
                 x[4] - (53 - MagLen(x[2], x[3])))
DivideNormal(x, y) ==
    DivideMags(x[1] * y[1], <<x[2], x[3]>>, <<y[2], y[3]>>, x[4] - y[4])
\* double operator/
DDiv(x, y) ==
    IF IsNaN(x) \/ IsNaN(y) THEN NaN
    ELSE IF IsInfinite(x)
    THEN (IF IsInfinite(y) THEN NaN ELSE Infinity(Sign(x) * Sign(y)))
    ELSE IF IsInfinite(y) THEN ZeroOf(Sign(x) * Sign(y))
    ELSE IF x[1] = 0 THEN (IF y[1] = 0 THEN NaN ELSE ZeroOf(Sign(x) * Sign(y)))
    ELSE IF y[1] = 0 THEN Infinity(Sign(x) * Sign(y))
    ELSE DivideNormal(Normal(x), Normal(y))

\* ----------------------------------------------------------- input space
Points == {"p0", "p1"}
SmallVals == {-1, 2}

KernelOf(d0, d1, o) ==
    [x \in Points |-> [y \in Points |->
        IF x # y THEN o ELSE IF x = "p0" THEN d0 ELSE d1]]
IntegerKernel(d0, d1, o) == KernelOf(D(d0), D(d1), D(o))
ConstantKernel(c) == KernelOf(c, c, c)
ConstantVals == SmallVals \cup {0}
ExampleKernel == IntegerKernel(4, 6, 2)
\* the double nearest to 0.1, 0x1.999999999999ap-4
Tenth == <<1, 53687091, 26843546, -56>>
TenthKernel == ConstantKernel(Tenth)
\* every symmetric evaluator over SmallVals, the constant evaluators and the
\* two-point example eval(x0,x0) = 4, eval(x1,x1) = 6, eval(x0,x1) = 2
IntegerKernels ==
    {IntegerKernel(d0, d1, o) : d0 \in SmallVals, d1 \in SmallVals, o \in SmallVals}
        \cup {ConstantKernel(D(c)) : c \in ConstantVals} \cup {ExampleKernel}
\* an evaluator with values of both signs whose sums round
MixedKernel == KernelOf(D(2), D(-1), Tenth)
\* 1e-318, the subnormal double 0x0.00000000316a2p-1022
Tiny == <<1, 0, 202402, -1074>>
\* 1e-318 on the diagonal and 0 off it
TinyKernel == KernelOf(Tiny, Tiny, Zero)
\* 0x1p+1023
Huge == <<1, 33554432, 0, 971>>
\* 0x1p+1023 on the diagonal and -0x1p+1023 off it: sums overflow
HugeKernel == KernelOf(Huge, Huge, DNeg(Huge))
Kernels == IntegerKernels \cup {TenthKernel, MixedKernel, TinyKernel, HugeKernel}

RECURSIVE Repeat(_, _)
Repeat(p, n) == IF n = 0 THEN <<>> ELSE <<p>> \o Repeat(p, n - 1)
\* the empty dataset and every dataset of at most MaxN points made of a run
\* of p0 followed by a (possibly empty) run of p1
Datasets ==
    {<<>>} \cup {Repeat("p0", ab[1]) \o Repeat("p1", ab[2]) :
                    ab \in {p \in (1 .. MaxN) \X (0 .. MaxN) : p[1] + p[2] <= MaxN}}
BlockSizes == (1 .. MaxBlock) \cup {SourceBlockSize}
\* The constructor (lines 67-68) does not initialise m_mean and m_trace: until
\* train assigns them (lines 136-137) they hold whatever bits their storage
\* held before, so a read returns an arbitrary double: any ordinary value of
\* either sign (a stale mean or trace of an earlier trainer in the same heap
\* chunk, a fill pattern such as 0x55.. or 0xAA..), +0.0, -0.0, a subnormal,
\* an infinity or NaN.  train never reads the two members and the accessors
\* only return them, so every such content behaves alike; Indeterminate is
\* the content of a member that was never assigned and stands for all of
\* them, and no property may rely on which double it is.
Indeterminate == <<"indeterminate">>
NoValue == <<>>
\* the factor the ScaledKernel holds when it is handed to the trainer
InitialFactors == {D(1)}

VARIABLES blockSize, main, factor, m_mean, m_trace, input, evals, tm, outcome
vars == <<blockSize, main, factor, m_mean, m_trace, input, evals, tm, outcome>>

\* 0.5 * d: the exponent drops by one, a subnormal result is rounded
Halved(d) == Scale(d, -1)

\* -------------------------------------------------- the evaluator calls
\* input(ii): element ii (0-based) of the dataset
Element(cx, ii) == cx.input[ii + 1]
\* main->eval(input(ii), input(jj))
eval(cx, ii, jj) == cx.main[Element(cx, ii)][Element(cx, jj)]

\* mean += main->eval(input(ii), input(jj));
AddPair(st, cx, ii, jj) ==
    [st EXCEPT !.mean = DAdd(@, eval(cx, ii, jj)),
               !.evals = Append(@, [ii |-> ii, jj |-> jj, diag |-> FALSE])]

\* variant: the halved diagonal value is added to the trace as well
AddDiagonalHalvedTrace(st, cx, ii) ==
    LET d == eval(cx, ii, ii)
    IN  [st EXCEPT !.mean = DAdd(@, Halved(d)),
                   !.trace = DAdd(@, Halved(d)),
                   !.evals = Append(@, [ii |-> ii, jj |-> ii, diag |-> TRUE])]

\* double d = main->eval(input(ii), input(ii)); mean += 0.5 * d; trace += d;
AddDiagonal(st, cx, ii) ==
    LET d == eval(cx, ii, ii)
    IN  [st EXCEPT !.mean = DAdd(@, Halved(d)),
                   !.trace = DAdd(@, d),
                   !.evals = Append(@, [ii |-> ii, jj |-> ii, diag |-> TRUE])]

\* ------------------------------------------------- the loop counters
\* The traversal state st holds the locals of train: mean, trace, the loop
\* counters ci, cj, i, ii, j, jj, and the evaluator calls made so far.
\* i=0, ii=...
FirstRow(st, ii0) == [st EXCEPT !.i = 0, !.ii = ii0]
\* i++, ii++
NextRow(st) == [st EXCEPT !.i = @ + 1, !.ii = @ + 1]
\* j=0, jj=...
FirstCol(st, jj0) == [st EXCEPT !.j = 0, !.jj = jj0]
\* j++, jj++
NextCol(st) == [st EXCEPT !.j = @ + 1, !.jj = @ + 1]
\* cj=0
FirstBlockCol(st) == [st EXCEPT !.cj = 0]
\* cj++
NextBlockCol(st) == [st EXCEPT !.cj = @ + 1]
\* ci++
NextBlockRow(st) == [st EXCEPT !.ci = @ + 1]

\* ------------------------------------------------------ full blocks
\* for (j=0, jj=64*ci; j<i; j++, jj++)
RECURSIVE DiagonalBlockCols(_, _)
DiagonalBlockCols(st, cx) ==
    IF st.j < st.i
    THEN DiagonalBlockCols(NextCol(AddPair(st, cx, st.ii, st.jj)), cx)
    ELSE st

\* for (i=0, ii=64*ci; i<64; i++, ii++) { inner loop; diagonal entry }
RECURSIVE DiagonalBlockRows(_, _)
DiagonalBlockRows(st, cx) ==
    IF st.i < cx.B
    THEN DiagonalBlockRows(
             NextRow(AddDiagonal(DiagonalBlockCols(FirstCol(st, cx.B * st.ci), cx),
                                 cx, st.ii)), cx)
    ELSE st

\* for (j=0, jj=64*cj; j<64; j++, jj++)
RECURSIVE OffDiagonalCols(_, _)
OffDiagonalCols(st, cx) ==
    IF st.j < cx.B
    THEN OffDiagonalCols(NextCol(AddPair(st, cx, st.ii, st.jj)), cx)
    ELSE st

\* for (i=0, ii=64*ci; i<64; i++, ii++)
RECURSIVE OffDiagonalRows(_, _)
OffDiagonalRows(st, cx) ==
    IF st.i < cx.B
    THEN OffDiagonalRows(NextRow(OffDiagonalCols(FirstCol(st, cx.B * st.cj), cx)), cx)
    ELSE st

\* variant: cj <= ci, the diagonal block is walked again as an off-diagonal one
RECURSIVE OffDiagonalBlocksInclusive(_, _)
OffDiagonalBlocksInclusive(st, cx) ==
    IF st.cj <= st.ci
    THEN OffDiagonalBlocksInclusive(
             NextBlockCol(OffDiagonalRows(FirstRow(st, cx.B * st.ci), cx)), cx)
    ELSE st

\* for (cj=0; cj<ci; cj++)
RECURSIVE OffDiagonalBlocks(_, _)
OffDiagonalBlocks(st, cx) ==
    IF st.cj < st.ci
    THEN OffDiagonalBlocks(
             NextBlockCol(OffDiagonalRows(FirstRow(st, cx.B * st.ci), cx)), cx)
    ELSE st

\* for (ci=0; ci<blocks; ci++) { diagonal block; off-diagonal blocks }
RECURSIVE FullBlocks(_, _, _)
FullBlocks(st, cx, blocks) ==
    IF st.ci < blocks
    THEN FullBlocks(
             NextBlockRow(OffDiagonalBlocks(
                 FirstBlockCol(DiagonalBlockRows(FirstRow(st, cx.B * st.ci), cx)),
                 cx)),
             cx, blocks)
    ELSE st

\* ---------------------------------------------------------- remainder
\* variant: i + 1 < rest, the last row of the remainder is left out
RECURSIVE MarginRowsShort(_, _, _)
MarginRowsShort(st, cx, rest) ==
    IF st.i + 1 < rest
    THEN MarginRowsShort(NextRow(AddPair(st, cx, st.ii, st.jj)), cx, rest)
    ELSE st

\* for (i=0, ii=64*blocks; i<rest; i++, ii++)
RECURSIVE MarginRows(_, _, _)
MarginRows(st, cx, rest) ==
    IF st.i < rest
    THEN MarginRows(NextRow(AddPair(st, cx, st.ii, st.jj)), cx, rest)
    ELSE st

\* for (j=0, jj=64*cj; j<64; j++, jj++)
RECURSIVE MarginCols(_, _, _, _)
MarginCols(st, cx, blocks, rest) ==
    IF st.j < cx.B
    THEN MarginCols(NextCol(MarginRows(FirstRow(st, cx.B * blocks), cx, rest)),
                    cx, blocks, rest)
    ELSE st

\* for (cj=0; cj<blocks; cj++)
RECURSIVE Margins(_, _, _, _)
Margins(st, cx, blocks, rest) ==
    IF st.cj < blocks
    THEN Margins(NextBlockCol(MarginCols(FirstCol(st, cx.B * st.cj), cx, blocks, rest)),
                 cx, blocks, rest)
    ELSE st

\* variant: the two arguments of eval exchanged, eval(input(jj), input(ii))
RECURSIVE LowerRightColsTransposed(_, _)
LowerRightColsTransposed(st, cx) ==
    IF st.j < st.i
    THEN LowerRightColsTransposed(NextCol(AddPair(st, cx, st.jj, st.ii)), cx)
    ELSE st

\* for (j=0, jj=64*blocks; j<i; j++, jj++)
RECURSIVE LowerRightCols(_, _)
LowerRightCols(st, cx) ==
    IF st.j < st.i
    THEN LowerRightCols(NextCol(AddPair(st, cx, st.ii, st.jj)), cx)
    ELSE st

\* for (i=0, ii=64*blocks; i<rest; i++, ii++) { inner loop; diagonal entry }
RECURSIVE LowerRightRows(_, _, _, _)
LowerRightRows(st, cx, blocks, rest) ==
    IF st.i < rest
    THEN LowerRightRows(
             NextRow(AddDiagonal(LowerRightCols(FirstCol(st, cx.B * blocks), cx),
                                 cx, st.ii)),
             cx, blocks, rest)
    ELSE st

\* if (rest > 0) { margins; lower right block }
Remainder(st, cx, blocks, rest) ==
    IF rest > 0
    THEN LowerRightRows(
             FirstRow(Margins(FirstBlockCol(st), cx, blocks, rest), cx.B * blocks),
             cx, blocks, rest)
    ELSE st

\* double mean = 0.0; double trace = 0.0; the locals before the first loop
Locals ==
    [mean |-> Zero, trace |-> Zero, evals |-> <<>>,
     ci |-> 0, cj |-> 0, i |-> 0, ii |-> 0, j |-> 0, jj |-> 0]

\* std::size_t N = input.numberOfElements(); blocks = N / 64;
\* rest = N - 64 * blocks; ... the whole traversal
Traverse(cx) ==
    LET N      == Len(cx.input)
        blocks == N \div cx.B
        rest   == N - cx.B * blocks
    IN  Remainder(FullBlocks(Locals, cx, blocks), cx, blocks, rest)

\* SHARK_CHECK(cond, msg): throws when cond is false
SHARK_CHECK(cond) == IF cond THEN "ok" ELSE "InvalidArgument"
\* SHARK_ASSERT(cond): the fatal assertion
SHARK_ASSERT(cond) == IF cond THEN "ok" ELSE "AssertionFailed"

\* variant: one point is accepted
SizeAtLeastOne(N) == N >= 1

\* input.numberOfElements() >= 2
SizeOk(N) == N >= 2

\* variant: the mean is divided by N once
DenominatorSingleDivision(trace, mean, N) ==
    DSub(DDiv(trace, D(N)), DDiv(mean, D(N)))

\* double tm = trace/N - mean/N/N;  N is converted to double, each of the
\* three divisions and the subtraction rounds
Denominator(trace, mean, N) ==
    DSub(DDiv(trace, D(N)), DDiv(DDiv(mean, D(N)), D(N)))

\* variant: the doubling is left out
NotDoubled(mean) == mean

\* mean *= 2.0;  the exponent rises by one, infinite on overflow
Doubled(mean) == Scale(mean, 1)

\* variant: tm >= 0
NonNegative(x) == x[1] >= 0

\* tm > 0
Positive(x) == x[1] > 0

\* double scaling_factor = 1.0 / tm;
ScalingFactor(x) == DDiv(D(1), x)

\* accessors: the member as it is, an arbitrary double while it is
\* Indeterminate
trace == m_trace
mean == m_mean

Init ==
    /\ blockSize \in BlockSizes
    /\ main \in Kernels
    /\ factor \in InitialFactors
    /\ m_mean = Indeterminate
    /\ m_trace = Indeterminate
    /\ input = <<>>
    /\ evals = <<>>
    /\ tm = NoValue
    /\ outcome = "constructed"

\* variant: the members are stored after the assertion
ConcludeAssertFirst(mn, tr, den, verdict) ==
    /\ tm' = den
    /\ outcome' = verdict
    /\ IF verdict = "ok"
       THEN /\ m_mean' = mn
            /\ m_trace' = tr
            /\ factor' = ScalingFactor(den)
       ELSE UNCHANGED <<m_mean, m_trace, factor>>

\* m_mean = mean; m_trace = trace; double tm = ...; SHARK_ASSERT(tm > 0);
\* double scaling_factor = 1.0 / tm; kernel.setFactor(scaling_factor);
Conclude(mn, tr, den, verdict) ==
    /\ m_mean' = mn
    /\ m_trace' = tr
    /\ tm' = den
    /\ outcome' = verdict
    /\ IF verdict = "ok"
       THEN factor' = ScalingFactor(den)
       ELSE UNCHANGED factor

\* SHARK_ASSERT(tm > 0) on the computed tm
Decide(mn, tr, den) == Conclude(mn, tr, den, SHARK_ASSERT(Positive(den)))

\* the statements after the traversal, lines 135-141
Finish(st, mn, N) ==
    /\ evals' = st.evals
    /\ Decide(mn, st.trace, Denominator(st.trace, mn, N))

\* the size check, line 79
Reject(verdict) ==
    /\ outcome' = verdict
    /\ evals' = <<>>
    /\ tm' = NoValue
    /\ UNCHANGED <<factor, m_mean, m_trace>>

Run(st, N) == Finish(st, Doubled(st.mean), N)

train(inp) ==
    /\ input' = inp
    /\ UNCHANGED <<blockSize, main>>
    /\ IF SizeOk(Len(inp))
       THEN Run(Traverse([main |-> main, input |-> inp, B |-> blockSize]),
                Len(inp))
       ELSE Reject(SHARK_CHECK(SizeOk(Len(inp))))

Next == \E inp \in Datasets : train(inp)

Spec == Init /\ [][Next]_vars

IsDouble(x) ==
    /\ x \in Seq(Int) /\ Len(x) = 4
    /\ x[1] \in {-1, 0, 1}
    /\ (x[1] = 0 => x \in {Zero, NegZero, NaN})
    /\ (x[1] # 0 =>
          \/ x = Infinity(x[1])
          \/ /\ -1074 <= x[4] /\ x[4] <= 971
             /\ 0 <= x[2] /\ x[2] < Pow2[26]
             /\ 0 <= x[3] /\ x[3] < Limb
             /\ (x[2] > 0 \/ x[3] > 0)
             /\ (x[2] < Pow2[25] => x[4] = -1074))

TypeOK ==
    /\ blockSize \in BlockSizes
    /\ main \in Kernels
    /\ input \in Datasets
    /\ outcome \in {"constructed", "ok", "InvalidArgument", "AssertionFailed"}
    /\ IsDouble(factor)
    /\ (m_mean = Indeterminate \/ IsDouble(m_mean))
    /\ (m_trace = Indeterminate \/ IsDouble(m_trace))
    /\ (outcome \in {"ok", "AssertionFailed"}
          => (IsDouble(m_mean) /\ IsDouble(m_trace)))
    /\ (tm # NoValue => IsDouble(tm))

\* ------------------------------------------- reference values of a call
Abs(n) == IF n < 0 THEN -n ELSE n
Sgn(n) == IF n < 0 THEN -1 ELSE IF n > 0 THEN 1 ELSE 0

\* the integer an integer-valued double of magnitude below 2^26 stands for
IntValue(x) == IF x[1] = 0 THEN 0 ELSE x[1] * (x[2] \div Pow2[(-x[4]) - 27])

\* eval(x_i, x_j) of dataset inp under the integer evaluator k, 0-based
EntryOf(k, inp, i, j) == IntValue(k[inp[i + 1]][inp[j + 1]])

\* sum over i < n of eval(x_i, x_i)
RECURSIVE DiagSumBelow(_, _, _)
DiagSumBelow(k, inp, n) ==
    IF n = 0 THEN 0 ELSE EntryOf(k, inp, n - 1, n - 1) + DiagSumBelow(k, inp, n - 1)
DiagSumOf(k, inp) == DiagSumBelow(k, inp, Len(inp))
\* the number of elements of inp equal to p
RECURSIVE Count(_, _, _)
Count(inp, p, n) ==
    IF n = 0 THEN 0 ELSE (IF inp[n] = p THEN 1 ELSE 0) + Count(inp, p, n - 1)
\* sum over all i, j of eval(x_i, x_j): each pair of points as often as it
\* occurs among the index pairs
PairTerm(k, inp, p, q) ==
    Count(inp, p, Len(inp)) * Count(inp, q, Len(inp)) * IntValue(k[p][q])
FullSumOf(k, inp) ==
    PairTerm(k, inp, "p0", "p0") + PairTerm(k, inp, "p0", "p1")
        + PairTerm(k, inp, "p1", "p0") + PairTerm(k, inp, "p1", "p1")
IndexOf(inp) == 0 .. (Len(inp) - 1)

\* The significand of x in limbs of 16 bits, lowest first.
Limbs(x) ==
    <<x[3] % Pow2[16],
      (x[3] \div Pow2[16]) + (x[2] % Pow2[5]) * Pow2[11],
      (x[2] \div Pow2[5]) % Pow2[16],
      x[2] \div Pow2[21], 0, 0>>
\* num * 2^k in limbs of 16 bits, lowest first (k <= 66)
Shifted16(num, k) ==
    [i \in 1 .. 6 |->
        IF i = (k \div 16) + 1 THEN (num * Pow2[k % 16]) % Pow2[16]
        ELSE IF i = (k \div 16) + 2 THEN (num * Pow2[k % 16]) \div Pow2[16]
        ELSE 0]
\* significand * den - num * 2^k, or 2^30 as soon as the difference is
\* known to exceed 2^28 in magnitude
RECURSIVE LimbDifference(_, _, _, _, _)
LimbDifference(acc, X, den, Y, i) ==
    IF i = 0 THEN acc
    ELSE IF Abs(acc) > Pow2[13] THEN Pow2[30]
    ELSE LimbDifference(acc * Pow2[16] + X[i] * den - Y[i], X, den, Y, i - 1)
\* the largest integer t with t * mult <= w * 2^(k - 50)
Tolerance(k, mult, w) ==
    IF k >= 50 THEN (w * Pow2[k - 50]) \div mult
    ELSE IF 50 - k <= 18 THEN w \div (mult * Pow2[50 - k])
    ELSE 0
\* |x * den - num| * mult <= w * 2^-50 for a double x and integers den > 0,
\* num # 0, mult > 0, w > 0 (den < 2^12, |num| < 2^14)
CloseTo(x, den, num, mult, w) ==
    /\ x[1] = Sgn(num)
    /\ x[2] > 0
    /\ 0 <= -x[4] /\ -x[4] <= 66
    /\ Abs(LimbDifference(0, Limbs(x), den, Shifted16(Abs(num), -x[4]), 6))
           <= Tolerance(-x[4], mult, w)
\* x is num / den up to an error of (w / mult) * 2^-50 / |den|, and exactly
\* zero when num is zero
ErrorWithin(x, den, num, mult, w) ==
    IF den = 0 THEN FALSE
    ELSE IF num = 0 THEN x = Zero
    ELSE CloseTo(x, Abs(den), Sgn(den) * num, mult, w)

\* two doubles that are equal or whose difference is below 2^-39 of the first
Near(x, y) ==
    \/ x = y
    \/ DSub(x, y) = Zero
    \/ (x[2] > 0 /\ y[2] > 0 /\ DSub(x, y)[4] <= x[4] - 40)

\* The flat double loop over i and j < i followed by the diagonal entry of
\* row i, in double arithmetic; fl holds mean, trace, i and j, and the mean is
\* the one before the doubling.
RECURSIVE FlatCols(_, _, _)
FlatCols(fl, k, inp) ==
    IF fl.j < fl.i
    THEN FlatCols([fl EXCEPT !.mean = DAdd(@, k[inp[fl.i + 1]][inp[fl.j + 1]]),
                             !.j = @ + 1], k, inp)
    ELSE fl
FlatDiagonal(fl, d) ==
    [fl EXCEPT !.mean = DAdd(@, Scale(d, -1)), !.trace = DAdd(@, d),
               !.i = @ + 1, !.j = 0]
RECURSIVE FlatRows(_, _, _)
FlatRows(fl, k, inp) ==
    IF fl.i < Len(inp)
    THEN FlatRows(FlatDiagonal(FlatCols(fl, k, inp), k[inp[fl.i + 1]][inp[fl.i + 1]]),
                  k, inp)
    ELSE <<fl.mean, fl.trace>>
FlatSums(k, inp) == FlatRows([mean |-> Zero, trace |-> Zero, i |-> 0, j |-> 0], k, inp)
FlatMeanOf(k, inp) == Scale(FlatSums(k, inp)[1], 1)
FlatTraceOf(k, inp) == FlatSums(k, inp)[2]
\* tr is the flat loop's trace and mn its mean up to summation order
MatchesFlat(mn, tr, sums) == tr = sums[2] /\ Near(mn, Scale(sums[1], 1))

N == Len(input)
DiagSum == DiagSumOf(main, input)
FullSum == FullSumOf(main, input)
\* N * trace - S: N^2 times the exact denominator
Spread == N * DiagSum - FullSum
\* N^2 / 2^50 times this bounds the rounding error of trace/N - mean/N/N
Weight == N * Abs(DiagSum) + Abs(FullSum)
Completed == outcome \in {"ok", "AssertionFailed"}
IsInteger == main \in IntegerKernels
IsConstant(c) == main = ConstantKernel(D(c))
IsTenth == main = TenthKernel
IsExample == main = ExampleKernel /\ input = <<"p0", "p1">>
Blocks == N \div blockSize
Rest == N % blockSize
Visits(i, j) == {k \in DOMAIN evals : {evals[k].ii, evals[k].jj} = {i, j}}

\* ------------------------------------------------------------------ C1
\* C1: after a train call on N >= 2 elements, mean() is the full-matrix
\* average (1/N^2) * sum_{i,j} eval(x_i, x_j) (up to rounding).
C1_MeanIsAverage ==
    (Completed /\ IsInteger) =>
        ErrorWithin(mean, N * N, FullSum, 1, Abs(FullSum) + 1)

\* ------------------------------------------------------------------ C2
\* C2 (as stated): after a successful train the factor is
\* 1/(trace/N - A/N^2) with A the full-matrix average; for the two-point
\* example trace = 10, mean = 3.5, denominator = 4.125, factor = 1/4.125.
C2_OriginalFactor ==
    /\ (outcome = "ok" /\ IsInteger) =>
         ErrorWithin(factor, N * N * N * DiagSum - FullSum, N * N * N * N,
                     1, N * N * N * N)
    /\ (IsExample /\ Completed) =>
         /\ outcome = "ok"
         /\ trace = D(10)
         /\ mean = <<1, 58720256, 0, -51>>
         /\ tm = <<1, 34603008, 0, -50>>
         /\ factor = <<1, 65075262, 8134408, -55>>

\* C2 (amended): after a successful train on integer-valued evaluations the
\* factor is 1/(trace/N - S/N^2), up to the rounding of the four double
\* operations, with trace the diagonal sum and S the full-matrix sum
\* (S/N^2 the average); for the two-point example trace = 10, S = 14,
\* denominator 5 - 3.5 = 1.5 and factor = 1/1.5, the double 0x1.5555555555555p-1.
C2_Factor ==
    /\ (outcome = "ok" /\ IsInteger) =>
         /\ trace = D(DiagSum)
         /\ mean = D(FullSum)
         /\ Spread > 0
         /\ ErrorWithin(tm, N * N, Spread, 1, Weight)
         /\ ErrorWithin(factor, Spread, N * N, Spread, N * N * (Weight + Spread))
    /\ (IsExample /\ Completed) =>
         /\ outcome = "ok"
         /\ trace = D(10)
         /\ FullSum = 14
         /\ mean = D(14)
         /\ tm = <<1, 50331648, 0, -52>>
         /\ factor = <<1, 44739242, 89478485, -53>>

C2_Witness ==
    /\ IsExample /\ outcome = "ok"
    /\ factor = <<1, 44739242, 89478485, -53>>

\* ------------------------------------------------------------------ C3
\* C3: one train call on N >= 2 elements passes every unordered index pair
\* {i, j}, i # j, and every diagonal pair (i, i) to the evaluator exactly
\* once: N(N+1)/2 calls in all, whatever N and the block size are.
C3_PairCount ==
    Completed =>
        /\ 2 * Len(evals) = N * (N + 1)
        /\ \A i \in IndexOf(input) : \A j \in 0 .. i :
               Cardinality(Visits(i, j)) = 1

C3_Witness ==
    /\ Completed
    /\ blockSize = 2 /\ Blocks = 2 /\ Rest = 1
    /\ Len(evals) = 15

\* ------------------------------------------------------------------ C4
\* C4: after a train call on N >= 2 elements, trace() is the sum over i of
\* eval(x_i, x_i), added in index order, every diagonal entry being
\* evaluated for the trace exactly once, in a full block or in the
\* remainder block.
C4_Trace ==
    Completed =>
        /\ trace = FlatTraceOf(main, input)
        /\ IsInteger => trace = D(DiagSum)
        /\ \A i \in IndexOf(input) :
               Cardinality({k \in DOMAIN evals :
                               evals[k].diag /\ evals[k].ii = i}) = 1

C4_Witness ==
    /\ Completed
    /\ Blocks >= 1 /\ Rest >= 1 /\ blockSize < N
    /\ trace # Zero
    /\ main[input[1]][input[1]] # main[input[N]][input[N]]

\* ------------------------------------------------------------------ C5
\* C5: a train call on fewer than 2 elements fails with the
\* invalid-argument error before any evaluation: no evaluator call is made
\* and no statistic is computed.
C5_RejectSmall ==
    (outcome # "constructed" /\ N < 2) =>
        /\ outcome = "InvalidArgument"
        /\ evals = <<>>
        /\ tm = NoValue

C5_Witness == outcome = "InvalidArgument" /\ N = 1 /\ evals = <<>>

\* ------------------------------------------------------------------ C6
\* C6 (as stated): whenever the denominator trace/N - mean/N/N computed by a
\* call is not strictly positive (for integer-valued evaluations: whenever
\* N * trace - S <= 0), the call raises the assertion and leaves the kernel's
\* factor as it was; no infinite or negative factor is ever set (the factor
\* is positive and finite).
C6_OriginalDegenerateStep ==
    /\ factor'[1] > 0 /\ IsFinite(factor')
    /\ (Len(input') >= 2 /\ tm'[1] <= 0)
       => (outcome' = "AssertionFailed" /\ factor' = factor)
    /\ (/\ Len(input') >= 2
        /\ main' \in IntegerKernels
        /\ Len(input') * DiagSumOf(main', input') - FullSumOf(main', input') <= 0)
       => (outcome' = "AssertionFailed" /\ factor' = factor)
C6_OriginalDegenerate == [][C6_OriginalDegenerateStep]_vars

\* the positive subnormal doubles of at most 2^-1024, whose reciprocal
\* overflows
AtMostTwoToMinus1024(x) ==
    /\ x[1] > 0 /\ x[4] = -1074
    /\ (x[2] < Pow2[23] \/ (x[2] = Pow2[23] /\ x[3] = 0))

\* C6 (amended): whenever the denominator trace/N - mean/N/N computed by a
\* call is not strictly positive (zero, negative or NaN; for integer-valued
\* evaluations: whenever N * trace - S <= 0), the call raises the assertion
\* and leaves the kernel's factor as it was.  A factor is set only for a
\* denominator tm > 0 and is 1.0/tm: never negative and never NaN, but
\* +infinity exactly when tm is a positive subnormal of at most 2^-1024
\* (evaluations 1e-318 on the diagonal and 0 off it, two points) and 0
\* exactly when tm is +infinity (evaluations 2^1023 on the diagonal and
\* -2^1023 off it, two points); for the integer-valued evaluations of the
\* model it is positive and finite.
C6_DegenerateStep ==
    /\ (Len(input') >= 2 /\ tm'[1] <= 0)
       => (outcome' = "AssertionFailed" /\ factor' = factor)
    /\ (/\ Len(input') >= 2
        /\ main' \in IntegerKernels
        /\ Len(input') * DiagSumOf(main', input') - FullSumOf(main', input') <= 0)
       => (outcome' = "AssertionFailed" /\ factor' = factor)
    /\ Sign(factor') > 0 /\ ~IsNaN(factor')
    /\ outcome' = "ok" =>
         /\ tm'[1] > 0
         /\ IsInfinite(factor') <=> AtMostTwoToMinus1024(tm')
         /\ factor' = Zero <=> IsInfinite(tm')
         /\ main' \in IntegerKernels => (factor'[1] > 0 /\ IsFinite(factor'))
    /\ (main' = TinyKernel /\ input' = <<"p0", "p1">>) =>
         /\ tm' = <<1, 0, 101201, -1074>>
         /\ outcome' = "ok"
         /\ factor' = Infinity(1)
    /\ (main' = HugeKernel /\ input' = <<"p0", "p1">>) =>
         /\ tm' = Infinity(1)
         /\ outcome' = "ok"
         /\ factor' = Zero
C6_Degenerate == [][C6_DegenerateStep]_vars

C6_Witness ==
    /\ outcome = "ok"
    /\ tm # NoValue /\ tm[1] > 0 /\ tm[4] = -1074
    /\ IsInfinite(factor)

\* ------------------------------------------------------------------ C7
\* C7 (as stated): for a constant evaluator c, trace = N*c, mean = c,
\* denominator = c - c/N, and normalization succeeds exactly when c > 0.
C7_OriginalConstant ==
    /\ \A c \in ConstantVals :
        (IsConstant(c) /\ Completed) =>
            /\ trace = D(N * c)
            /\ mean = D(c)
            /\ ErrorWithin(tm, N, c * (N - 1), 1, Abs(c) * N + 1)
            /\ (outcome = "ok" <=> c > 0)
    /\ (IsTenth /\ Completed) => outcome = "ok"

\* C7 (amended): for a constant integer-valued evaluator c on N >= 2
\* elements, trace = N*c, mean() is the full-matrix sum N^2*c (average c) and
\* the computed denominator is exactly 0, so the assertion fails for every
\* such c, c > 0 included.  For a constant whose sums round, the denominator
\* is rounding noise around 0: c = 0.1 gives 0 for N = 2 (assertion) and
\* 2^-55 for N = 3 (factor 2^55 is set).
C7_Constant ==
    /\ \A c \in ConstantVals :
        (IsConstant(c) /\ Completed) =>
            /\ trace = D(N * c)
            /\ mean = D(N * N * c)
            /\ FullSum = N * N * c
            /\ tm = Zero
            /\ outcome = "AssertionFailed"
    /\ (IsTenth /\ Completed /\ N = 2) =>
            /\ tm = Zero
            /\ outcome = "AssertionFailed"
    /\ (IsTenth /\ Completed /\ N = 3) =>
            /\ tm = <<1, 33554432, 0, -107>>
            /\ outcome = "ok"
            /\ factor = <<1, 33554432, 0, 3>>

C7_Witness ==
    /\ IsConstant(2)
    /\ outcome = "AssertionFailed"
    /\ N >= 3
    /\ trace = D(2 * N)

\* ------------------------------------------------------------------ C8
\* C8 (as stated): the blocked traversal yields the trace, the accumulated
\* mean and the factor of the flat double loop over i and j <= i, for every
\* block size (1, smaller than N, at least N) and every N >= 2.
FlatTrace == FlatTraceOf(main, input)
FlatMean == FlatMeanOf(main, input)
FlatTm == Denominator(FlatTrace, FlatMean, N)
FlatOutcome == SHARK_ASSERT(Positive(FlatTm))
SameAsFlat ==
    /\ mean = FlatMean
    /\ tm = FlatTm
    /\ outcome = FlatOutcome
    /\ (outcome = "ok" => factor = ScalingFactor(FlatTm))
C8_OriginalBlockedEqualsFlat ==
    Completed => (trace = FlatTrace /\ SameAsFlat)

\* C8 (amended): for every block size and every N >= 2 the blocked traversal
\* yields the trace of the flat double loop; it yields the flat loop's mean,
\* denominator, outcome and factor when the evaluations are integer-valued
\* (all partial sums exact) or the block size is at least N.  Otherwise the
\* mean agrees up to the rounding of the other summation order only, and with
\* a denominator at rounding level the outcome differs: constant evaluator
\* 0.1 on 4 elements sets the factor 2^56 with block size 1 or 2 and fails
\* the assertion with block size 3 or more, as the flat loop does.
C8_BlockedEqualsFlat ==
    Completed =>
        /\ trace = FlatTrace
        /\ (IsInteger \/ blockSize >= N) => SameAsFlat
        /\ Near(mean, FlatMean)
        /\ (IsTenth /\ N = 4) =>
              /\ FlatOutcome = "AssertionFailed"
              /\ blockSize <= 2 =>
                    (outcome = "ok" /\ factor = <<1, 33554432, 0, 4>>)
              /\ blockSize >= 3 => outcome = "AssertionFailed"

C8_Witness ==
    /\ outcome = "ok"
    /\ blockSize = 2 /\ N = 5
    /\ IsInteger
    /\ \E k \in DOMAIN evals : evals[k].ii = 4 /\ evals[k].jj = 1

\* ------------------------------------------------------------------ C9
\* C9: every index pair (ii, jj) handed to the dataset during the traversal
\* satisfies 0 <= jj <= ii < N, and jj = ii only in the diagonal evaluation
\* that feeds the trace.
C9_IndexBounds ==
    \A k \in DOMAIN evals :
        /\ 0 <= evals[k].jj
        /\ evals[k].jj <= evals[k].ii
        /\ evals[k].ii < N
        /\ (evals[k].jj = evals[k].ii) => evals[k].diag

C9_Witness ==
    /\ Completed
    /\ blockSize = 1 /\ N = MaxN
    /\ \E k \in DOMAIN evals : evals[k].ii = N - 1 /\ evals[k].jj = 0

\* ----------------------------------------------------------------- C10
\* C10: every train call that completes the traversal overwrites trace() and
\* mean() with that call's values, also when it then fails the denominator
\* check, in which case the factor stays as it was; a call rejected for
\* size < 2 leaves trace(), mean() and the factor unchanged.
C10_Overwritten ==
    Completed =>
        /\ MatchesFlat(mean, trace, FlatSums(main, input))
        /\ IsInteger => (trace = D(DiagSum) /\ mean = D(FullSum))
C10_CacheStep ==
    /\ Len(input') >= 2 =>
         /\ outcome' \in {"ok", "AssertionFailed"}
         /\ outcome' = "AssertionFailed" => factor' = factor
    /\ Len(input') < 2 =>
         /\ outcome' = "InvalidArgument"
         /\ trace' = trace /\ mean' = mean /\ factor' = factor
C10_Cache == []C10_Overwritten /\ [][C10_CacheStep]_vars

C10_Witness ==
    /\ outcome = "AssertionFailed"
    /\ factor \notin InitialFactors
    /\ tm = Zero
    /\ trace # Zero
    /\ IsInteger
    /\ trace = D(DiagSum)
====
